---------------------------- MODULE Spec2Model ----------------------------
(***************************************************************************)
(* AQI India backend: the AQI calculator (app/api/endpoints.py), the city  *)
(* endpoint that aggregates sub-indices, the ingestion job                 *)
(* (app/api/ingest.py) and the measurement store (app/db.py).              *)
(*                                                                         *)
(* Concentrations and interpolated indices are Python floats, i.e. IEEE    *)
(* 754 binary64 values.  They are modelled exactly: a float is a sign, an  *)
(* integer significand of exactly MantBits bits (held as a little-endian   *)
(* sequence of limbs, because TLC's integers are 32 bits wide)             *)
(* and a binary exponent.  Every arithmetic operation computes the         *)
(* exact result and rounds it once to MantBits bits, ties to even, as the  *)
(* hardware does.  Exponent overflow, subnormals, infinities and NaN are   *)
(* outside the modelled range (all magnitudes lie between 2^-20 and 2^20). *)
(***************************************************************************)
EXTENDS Integers, Sequences, FiniteSets

(***************************************************************************)
(* Natural numbers of arbitrary size: little-endian limbs in 0..Base-1,    *)
(* no leading (most significant) zero limb; zero is the empty sequence.    *)
(***************************************************************************)
LimbBits == 5 * 3
Base == 2^LimbBits

Max2(a, b) == IF a >= b THEN a ELSE b
Min2(a, b) == IF a <= b THEN a ELSE b

Limb(a, i) == IF i <= Len(a) THEN a[i] ELSE 0

RECURSIVE BNorm(_)
BNorm(a) ==
    IF a = <<>> THEN <<>>
    ELSE IF a[Len(a)] = 0 THEN BNorm(SubSeq(a, 1, Len(a) - 1)) ELSE a

RECURSIVE BFromNat(_)
BFromNat(n) == IF n = 0 THEN <<>> ELSE <<n % Base>> \o BFromNat(n \div Base)

RECURSIVE BToNat(_)
BToNat(a) == IF a = <<>> THEN 0 ELSE a[1] + Base * BToNat(Tail(a))

RECURSIVE BAddC(_, _, _, _)
BAddC(a, b, i, c) ==
    IF i > Max2(Len(a), Len(b))
    THEN IF c = 0 THEN <<>> ELSE <<c>>
    ELSE LET s == Limb(a, i) + Limb(b, i) + c
         IN  <<s % Base>> \o BAddC(a, b, i + 1, s \div Base)

BAdd(a, b) == BAddC(a, b, 1, 0)

RECURSIVE BSubC(_, _, _, _)
BSubC(a, b, i, c) ==
    IF i > Len(a) THEN <<>>
    ELSE LET s == Limb(a, i) - Limb(b, i) - c
         IN  IF s < 0 THEN <<s + Base>> \o BSubC(a, b, i + 1, 1)
                      ELSE <<s>> \o BSubC(a, b, i + 1, 0)

\* a - b, for a >= b
BSub(a, b) == BNorm(BSubC(a, b, 1, 0))

RECURSIVE BCmpAt(_, _, _)
BCmpAt(a, b, i) ==
    IF i = 0 THEN 0
    ELSE IF a[i] > b[i] THEN 1
    ELSE IF a[i] < b[i] THEN -1
    ELSE BCmpAt(a, b, i - 1)

\* -1, 0, 1 as a < b, a = b, a > b
BCmp(a, b) ==
    IF Len(a) > Len(b) THEN 1
    ELSE IF Len(a) < Len(b) THEN -1
    ELSE BCmpAt(a, b, Len(a))

RECURSIVE BMulSmallC(_, _, _, _)
BMulSmallC(a, k, i, c) ==
    IF i > Len(a)
    THEN IF c = 0 THEN <<>> ELSE <<c>>
    ELSE LET s == a[i] * k + c
         IN  <<s % Base>> \o BMulSmallC(a, k, i + 1, s \div Base)

\* a * k, for 0 <= k <= Base
BMulSmall(a, k) == IF k = 0 THEN <<>> ELSE BMulSmallC(a, k, 1, 0)

Zeros(n) == [i \in 1..n |-> 0]

RECURSIVE BMulAt(_, _, _)
BMulAt(a, b, j) ==
    IF j > Len(b) THEN <<>>
    ELSE BAdd(BNorm(Zeros(j - 1) \o BMulSmall(a, b[j])), BMulAt(a, b, j + 1))

BMul(a, b) == BMulAt(a, b, 1)

RECURSIVE BDivSmallAt(_, _, _, _)
\* Short division from the most significant limb down: <<quotient limbs, remainder>>
BDivSmallAt(a, d, i, r) ==
    IF i = 0 THEN <<<<>>, r>>
    ELSE LET cur  == r * Base + a[i]
             rest == BDivSmallAt(a, d, i - 1, cur % d)
         IN  <<rest[1] \o <<cur \div d>>, rest[2]>>

QuotRem(qr) == [q |-> BNorm(qr[1]), r |-> qr[2]]

\* floor(a / d) and a mod d, for 0 < d <= Base
BDivSmall(a, d) == QuotRem(BDivSmallAt(a, d, Len(a), 0))

RECURSIVE NatBitLen(_)
NatBitLen(n) == IF n = 0 THEN 0 ELSE 1 + NatBitLen(n \div 2)

BitLen(a) == IF a = <<>> THEN 0 ELSE (Len(a) - 1) * LimbBits + NatBitLen(a[Len(a)])

\* a * 2^n
BShl(a, n) ==
    IF a = <<>> \/ n = 0 THEN a
    ELSE BMulSmall(Zeros(n \div LimbBits) \o a, 2^(n % LimbBits))

\* floor(a / 2^n)
BShr(a, n) ==
    IF n \div LimbBits >= Len(a) THEN <<>>
    ELSE BDivSmall(SubSeq(a, n \div LimbBits + 1, Len(a)), 2^(n % LimbBits)).q

RECURSIVE NatTrailingZeros(_)
NatTrailingZeros(n) == IF n % 2 = 1 THEN 0 ELSE 1 + NatTrailingZeros(n \div 2)

RECURSIVE BTrailingZerosAt(_, _)
BTrailingZerosAt(a, i) ==
    IF a[i] = 0 THEN LimbBits + BTrailingZerosAt(a, i + 1)
    ELSE NatTrailingZeros(a[i])

\* The number of trailing zero bits of a > 0
BTrailingZeros(a) == BTrailingZerosAt(a, 1)

BIsOdd(a) == a # <<>> /\ a[1] % 2 = 1

\* For m = q * 2^n + r with r < 2^n: -1, 0, 1 as r is below, at, above 2^(n-1)
HalfCmp(m, n, q) == BCmp(BSub(m, BShl(q, n)), BShl(<<1>>, n - 1))

\* q, or q + 1 when the part cut off is above a half (half > 0) or is a half
\* and q is odd: to nearest, ties to even
RoundedUp(q, half) == IF half > 0 \/ (half = 0 /\ BIsOdd(q)) THEN BAdd(q, <<1>>) ELSE q

BRoundShrQ(m, n, q) == RoundedUp(q, HalfCmp(m, n, q))

\* m / 2^n rounded to the nearest integer, ties to even, for n > 0
BRoundShr(m, n) == BRoundShrQ(m, n, BShr(m, n))

(***************************************************************************)
(* Python floats (binary64).                                               *)
(***************************************************************************)
MantBits == 53

\* Zero keeps a sign: 0.0 and -0.0 compare equal but are different floats
FSignedZero(neg) == [neg |-> neg, m |-> <<>>, e |-> 0]

\* m * 2^e with the significand moved sh bits up (down when sh < 0; the bits
\* dropped are then zeros: a rounding that carried out gives a power of two)
FShifted(neg, m, e, sh) ==
    [neg |-> neg, m |-> IF sh >= 0 THEN BShl(m, sh) ELSE BShr(m, -sh), e |-> e - sh]

\* The float of value (-1)^neg * m * 2^e, for m of at most MantBits bits or
\* m = 2^MantBits: the significand is normalised to exactly MantBits bits
FMake(neg, m, e) ==
    IF m = <<>> THEN FSignedZero(neg) ELSE FShifted(neg, m, e, MantBits - BitLen(m))

\* m * 2^e with the n lowest bits of m rounded away
FRoundBits(neg, m, e, n) ==
    FMake(neg, IF n <= 0 THEN m ELSE BRoundShr(m, n), IF n <= 0 THEN e ELSE e + n)

\* Round m * 2^e to MantBits significant bits, to nearest, ties to even
FRound(neg, m, e) == FRoundBits(neg, m, e, BitLen(m) - MantBits)

FromInt(n) == FMake(n < 0, BFromNat(IF n < 0 THEN -n ELSE n), 0)

FNeg(x) == [x EXCEPT !.neg = ~x.neg]

\* Compare magnitudes: -1, 0, 1
FCmpMag(x, y) ==
    IF x.m = <<>> \/ y.m = <<>>
    THEN IF x.m = y.m THEN 0 ELSE IF x.m = <<>> THEN -1 ELSE 1
    ELSE IF x.e > y.e THEN 1
    ELSE IF x.e < y.e THEN -1
    ELSE BCmp(x.m, y.m)

FCmp(x, y) ==
    IF x.m = <<>> /\ y.m = <<>> THEN 0
    ELSE IF x.neg /\ ~y.neg THEN -1
    ELSE IF ~x.neg /\ y.neg THEN 1
    ELSE IF x.neg THEN FCmpMag(y, x) ELSE FCmpMag(x, y)

FLe(x, y) == FCmp(x, y) <= 0
FLt(x, y) == FCmp(x, y) < 0

\* The sum of the significands mx and my at the common exponent e, c telling
\* which is larger
FAddSigned(xneg, yneg, mx, my, c, e) ==
    FRound(IF xneg = yneg THEN xneg ELSE IF c = 0 THEN FALSE ELSE IF c > 0 THEN xneg ELSE yneg,
           IF xneg = yneg THEN BAdd(mx, my)
           ELSE IF c > 0 THEN BSub(mx, my) ELSE BSub(my, mx),
           e)

FAddAligned(xneg, yneg, mx, my, e) == FAddSigned(xneg, yneg, mx, my, BCmp(mx, my), e)

FAddAt(x, y, e) == FAddAligned(x.neg, y.neg, BShl(x.m, x.e - e), BShl(y.m, y.e - e), e)

FAdd(x, y) ==
    IF x.m = <<>> /\ y.m = <<>> THEN FSignedZero(x.neg /\ y.neg)
    ELSE IF x.m = <<>> THEN y
    ELSE IF y.m = <<>> THEN x
    ELSE FAddAt(x, y, Min2(x.e, y.e))

FSub(x, y) == FAdd(x, FNeg(y))

FMul(x, y) == FRound(x.neg # y.neg, BMul(x.m, y.m), x.e + y.e)

\* The quotient qr.q with a sticky bit below it that stands for a nonzero
\* remainder, rounded
FDivRounded(neg, qr, e) ==
    FRound(neg, BAdd(BShl(qr.q, 1), IF qr.r = 0 THEN <<>> ELSE <<1>>), e)

\* x / (d * 2^(y.e + tz)) with s bits of quotient
FDivBits(x, y, tz, d, s) ==
    FDivRounded(x.neg # y.neg, BDivSmall(BShl(x.m, s), d[1]), x.e - (y.e + tz) - s - 1)

FDivOdd(x, y, tz, d) == FDivBits(x, y, tz, d, MantBits + 2 + BitLen(d))

FDivTz(x, y, tz) == FDivOdd(x, y, tz, BShr(y.m, tz))

\* x / y, for y # 0 whose significand without its trailing zeros is below Base
\* (every divisor of the program: the band spans of the two tables)
FDiv(x, y) == IF x.m = <<>> THEN FSignedZero(x.neg # y.neg) ELSE FDivTz(x, y, BTrailingZeros(y.m))

\* |x| rounded to the nearest integer, ties to even, for x # 0
RoundMag(x) ==
    IF x.e >= 0 THEN BToNat(BShl(x.m, x.e)) ELSE BToNat(BRoundShr(x.m, -x.e))

\* |x| rounded to the nearest integer with ties going towards +infinity
RoundMagHalfUp(x, half) ==
    BToNat(BShr(x.m, -x.e)) + (IF (IF x.neg THEN half > 0 ELSE half >= 0) THEN 1 ELSE 0)

Signed(neg, mag) == IF neg THEN -mag ELSE mag

\* A rounding to the nearest integer with ties going up: floor(x + 1/2) for
\* the exact x
PyRoundHalfUp(x) ==
    IF x.m = <<>> THEN 0
    ELSE IF x.e >= 0 THEN Signed(x.neg, BToNat(BShl(x.m, x.e)))
    ELSE Signed(x.neg, RoundMagHalfUp(x, HalfCmp(x.m, -x.e, BShr(x.m, -x.e))))

\* Python's round(x) of a float: the nearest integer, ties to even
PyRound(x) == IF x.m = <<>> THEN 0 ELSE Signed(x.neg, RoundMag(x))

(***************************************************************************)
(* Optional values: None is the empty sequence, a present value v is <<v>>. *)
(***************************************************************************)
None == <<>>
Some(v) == <<v>>

(***************************************************************************)
(* The breakpoint tables: (C_low, C_high, I_low, I_high).                  *)
(***************************************************************************)
BP(cl, ch, il, ih) == <<FromInt(cl), FromInt(ch), il, ih>>

PM25_BREAKPOINTS ==
    << BP(0, 30, 0, 50),
       BP(30, 60, 51, 100),
       BP(60, 90, 101, 200),
       BP(90, 120, 201, 300),
       BP(120, 250, 301, 400),
       BP(250, 350, 401, 500),
       BP(350, 500, 501, 999) >>

PM10_BREAKPOINTS ==
    << BP(0, 50, 0, 50),
       BP(50, 100, 51, 100),
       BP(100, 250, 101, 200),
       BP(250, 350, 201, 300),
       BP(350, 430, 301, 400),
       BP(430, 500, 401, 500),
       BP(500, 1000, 501, 999) >>

Pollutants == {"pm25", "pm10"}

\* The table that governs a pollutant
Table(p) == IF p = "pm25" THEN PM25_BREAKPOINTS ELSE PM10_BREAKPOINTS

(***************************************************************************)
(* The calculator.                                                         *)
(***************************************************************************)
\* linear_interpolate inside the band, with the distance taken downwards
Interpolated_falling(C, C_low, I_low, I_high, span_C) ==
    IF span_C.m = <<>> THEN Some(FromInt(I_low))
    ELSE Some(FAdd(FMul(FDiv(FromInt(I_high - I_low), span_C), FSub(C_low, C)),
                   FromInt(I_low)))

\* linear_interpolate inside the band, of span span_C: slope * (C - C_low) + I_low
Interpolated(C, C_low, I_low, I_high, span_C) ==
    IF span_C.m = <<>> THEN Some(FromInt(I_low))
    ELSE Some(FAdd(FMul(FDiv(FromInt(I_high - I_low), span_C), FSub(C, C_low)),
                   FromInt(I_low)))

\* linear_interpolate with the band's upper bound left out
linear_interpolate_open(C, bp) ==
    LET C_low  == bp[1]
        C_high == bp[2]
        I_low  == bp[3]
        I_high == bp[4]
    IN  IF C = None THEN None
        ELSE IF FLe(C_low, C[1]) /\ FLt(C[1], C_high)
        THEN Interpolated(C[1], C_low, I_low, I_high, FSub(C_high, C_low))
        ELSE None

\* C is None or <<float>>; the result is None or <<float>>
linear_interpolate(C, bp) ==
    LET C_low  == bp[1]
        C_high == bp[2]
        I_low  == bp[3]
        I_high == bp[4]
    IN  IF C = None THEN None
        ELSE IF FLe(C_low, C[1]) /\ FLe(C[1], C_high)
        THEN Interpolated(C[1], C_low, I_low, I_high, FSub(C_high, C_low))
        ELSE None

RECURSIVE FirstBand(_, _, _)
RECURSIVE FirstBandFrom(_, _, _, _)
\* The for loop of get_subindex from band i on: the first non-None interpolation
FirstBand(conc, breakpoints, i) ==
    IF i > Len(breakpoints) THEN None
    ELSE FirstBandFrom(conc, breakpoints, i, linear_interpolate(conc, breakpoints[i]))

\* One turn of the loop, val being the interpolation on band i
FirstBandFrom(conc, breakpoints, i, val) ==
    IF val # None THEN val ELSE FirstBand(conc, breakpoints, i + 1)

\* The last band's line at c: slope * (c - Clow) + Ilow, d being Chigh - Clow
ExtendedLine(c, Clow, Ilow, Ihigh, d) ==
    FAdd(FMul(FDiv(FromInt(Ihigh - Ilow), IF d.m # <<>> THEN d ELSE FromInt(1)),
              FSub(c, Clow)),
         FromInt(Ilow))

\* Extrapolation clamped to the last band's index_high
Extrapolate_clamped(conc, breakpoints) ==
    LET last == breakpoints[Len(breakpoints)]
    IN  IF FLt(last[2], conc[1])
        THEN Some(Min2(PyRound(ExtendedLine(conc[1], last[1], last[3], last[4],
                                            FSub(last[2], last[1]))),
                       last[4]))
        ELSE None

\* Extrapolation along the first band's line instead of the last's
Extrapolate_first(conc, breakpoints) ==
    LET last  == breakpoints[Len(breakpoints)]
        first == breakpoints[1]
    IN  IF FLt(last[2], conc[1])
        THEN Some(PyRound(ExtendedLine(conc[1], first[1], first[3], first[4],
                                       FSub(first[2], first[1]))))
        ELSE None

\* get_subindex once no band has matched: above the last band, the last
\* band's line extended; otherwise None
Extrapolate(conc, breakpoints) ==
    LET last == breakpoints[Len(breakpoints)]
    IN  IF FLt(last[2], conc[1])
        THEN Some(PyRound(ExtendedLine(conc[1], last[1], last[3], last[4],
                                       FSub(last[2], last[1]))))
        ELSE None

\* get_subindex from the end of its loop on, val being the loop's result
Rounded(conc, breakpoints, val) ==
    IF val # None THEN Some(PyRound(val[1])) ELSE Extrapolate(conc, breakpoints)

\* get_subindex giving 0 where the code gives None
get_subindex_zero(conc, breakpoints) ==
    IF conc = None THEN Some(0)
    ELSE IF FLt(conc[1], breakpoints[1][1]) THEN Some(0)
    ELSE Rounded(conc, breakpoints, FirstBand(conc, breakpoints, 1))

\* conc is None or <<float>>; the result is None or <<integer>>
get_subindex(conc, breakpoints) ==
    IF conc = None THEN None
    ELSE Rounded(conc, breakpoints, FirstBand(conc, breakpoints, 1))

(***************************************************************************)
(* The concentrations the calculator is applied to: every multiple of      *)
(* 1/Den from -1 to MaxConc, as the float nearest to it, and None.         *)
(***************************************************************************)
Den == 3
MaxConc == 1010

MinNum == -Den
MaxNum == MaxConc * Den
Nums == MinNum..MaxNum

\* The float nearest to k / Den
ConcOf(k) == FDiv(FromInt(k), FromInt(Den))

\* An input is None or <<k>>, the numerator of a concentration
Inputs == {None} \cup {Some(k) : k \in Nums}

ToConc(i) == IF i = None THEN None ELSE Some(ConcOf(i[1]))

\* The grid of concentrations as a sequence: the concentration of numerator k
\* is at index k - MinNum + 1
ConcSeq == [j \in 1..(MaxNum - MinNum + 1) |-> ConcOf(j + MinNum - 1)] \o <<>>

(***************************************************************************)
(* The provider's JSON as the service reads it.  A value is null, a string *)
(* or a number; a measurement carries a parameter name, a value and the    *)
(* timestamp its timestamp keys yield (None when they yield nothing).      *)
(***************************************************************************)
JNull == [k |-> "null"]
JStr(s) == [k |-> "str", s |-> s]
JNum(n) == [k |-> "num", v |-> FromInt(n)]

Measurement(parameter, value, ts) == [parameter |-> parameter, value |-> value, ts |-> ts]

\* float(val) inside try/except: None stands for the exception being caught
\* (TypeError on null, ValueError on a string that is no number)
PyFloat(val) == IF val.k = "num" THEN Some(val.v) ELSE None

\* str.lower() on the parameter names of the provider
Lower(s) == IF s = "PM2.5" THEN "pm2.5" ELSE IF s = "PM10" THEN "pm10" ELSE s

\* The (pm25, pm10, updated) triple the three lookups return
Found(v25, v10, upd) == [pm25 |-> v25, pm10 |-> v10, updated |-> upd]
NotFound == Found(None, None, None)
BothFound(acc) == acc.pm25 # None /\ acc.pm10 # None

\* Body of the inner loop of extract_from_latest for one measurement m
TakeLatest(acc, m) ==
    LET param == Lower(m.parameter)
        v     == PyFloat(m.value)
        a1    == IF param \in {"pm25", "pm2.5"} /\ acc.pm25 = None /\ v # None
                 THEN [acc EXCEPT !.pm25 = v,
                                  !.updated = IF @ = None THEN m.ts ELSE @]
                 ELSE acc
    IN  IF param = "pm10" /\ a1.pm10 = None /\ v # None
        THEN [a1 EXCEPT !.pm10 = v, !.updated = IF @ = None THEN m.ts ELSE @]
        ELSE a1

RECURSIVE ScanLatest(_, _, _)
\* The inner loop of extract_from_latest from measurement i on
ScanLatest(acc, measurements, i) ==
    IF i > Len(measurements) THEN acc
    ELSE ScanLatest(TakeLatest(acc, measurements[i]), measurements, i + 1)

RECURSIVE ScanResults(_, _, _)
\* The outer loop of extract_from_latest from result r on, with its break
ScanResults(acc, results, r) ==
    IF r > Len(results) THEN acc
    ELSE LET a == ScanLatest(acc, results[r], 1)
         IN  IF BothFound(a) THEN a ELSE ScanResults(a, results, r + 1)

\* pl is None or <<results>>, each result being its list of measurements
extract_from_latest(pl) ==
    IF pl = None THEN NotFound
    ELSE IF pl[1] = <<>> THEN NotFound
    ELSE ScanResults(NotFound, pl[1], 1)

\* Body of the loop over a measurements response for one measurement m
TakeMeasurement(acc, m) ==
    LET param == Lower(m.parameter)
        v     == PyFloat(m.value)
    IN  IF v = None THEN acc
        ELSE LET a1 == IF param \in {"pm25", "pm2.5"} /\ acc.pm25 = None
                       THEN [acc EXCEPT !.pm25 = v,
                                        !.updated = IF @ = None THEN m.ts ELSE @]
                       ELSE acc
             IN  IF param = "pm10" /\ a1.pm10 = None
                 THEN [a1 EXCEPT !.pm10 = v, !.updated = IF @ = None THEN m.ts ELSE @]
                 ELSE a1

RECURSIVE ScanMeasurements(_, _, _)
\* The loop over a measurements response from measurement i on, leaving
\* as soon as both pollutants are found
ScanMeasurements(acc, results, i) ==
    IF i > Len(results) THEN acc
    ELSE LET a == TakeMeasurement(acc, results[i])
         IN  IF BothFound(a) THEN a ELSE ScanMeasurements(a, results, i + 1)

\* try_measurements_for_city on the response resp of the measurements
\* endpoint: None or <<list of measurements>>
try_measurements_for_city(resp) ==
    IF resp = None THEN NotFound
    ELSE ScanMeasurements(NotFound, resp[1], 1)

\* One turn of the loop of find_locations_and_try on the response data for
\* a location: the triple is returned only when both pollutants are found
TryLocationData(data) ==
    IF data = None THEN NotFound
    ELSE LET a == ScanMeasurements(NotFound, data[1], 1)
         IN  IF BothFound(a) THEN a ELSE NotFound

\* The maximum with an absent sub-index counted as 0
overall_aqi_zero(sub_pm25, sub_pm10) ==
    Some(Max2(IF sub_pm25 = None THEN 0 ELSE sub_pm25[1],
              IF sub_pm10 = None THEN 0 ELSE sub_pm10[1]))

\* max(candidates) if candidates else None, candidates being the sub-indices
\* that are not None
overall_aqi(sub_pm25, sub_pm10) ==
    LET candidates == SelectSeq(<<sub_pm25, sub_pm10>>, LAMBDA s : s # None)
    IN  IF candidates = <<>> THEN None
        ELSE IF Len(candidates) = 1 THEN candidates[1]
        ELSE Some(Max2(candidates[1][1], candidates[2][1]))

\* The timestamps of the provider
StampZ      == "2024-05-01T10:00:00Z"
StampOffset == "2024-05-01T15:30:00+05:30"
StampWords  == "yesterday"

\* datetime.fromisoformat(updated.replace("Z", "+00:00")) converted to UTC and
\* printed; a string that is no ISO timestamp raises and is kept as it is
ToIso(upd) ==
    IF upd = None THEN None
    ELSE IF upd[1] \in {StampZ, StampOffset} THEN Some("2024-05-01T10:00:00+00:00")
    ELSE upd

\* n / 100 as a float; a value that rounds to zero keeps its sign
PyRound2Of(neg, n) ==
    IF n = 0 THEN FSignedZero(neg) ELSE FDiv(FromInt(n), FromInt(100))

\* Python's round(x, 2) of a float: the float nearest to the decimal with two
\* places nearest to x, ties to even
PyRound2(x) ==
    IF x.m = <<>> THEN x
    ELSE PyRound2Of(x.neg, PyRound([neg |-> x.neg, m |-> BMulSmall(x.m, 100), e |-> x.e]))

\* The body city_endpoint returns when a concentration was found
CityBody(cty, v25, v10, upd, sub_pm25, sub_pm10) ==
    [city     |-> cty,
     pm25     |-> IF v25 = None THEN None ELSE Some(PyRound2(v25[1])),
     pm10     |-> IF v10 = None THEN None ELSE Some(PyRound2(v10[1])),
     aqi      |-> overall_aqi(sub_pm25, sub_pm10),
     subindex |-> [pm25 |-> sub_pm25, pm10 |-> sub_pm10],
     updated  |-> ToIso(upd),
     source   |-> "openaq"]

\* get_subindex(pm, table) if pm is not None else None
SubindexIfPresent(v, t) == IF v # None THEN get_subindex(v, t) ELSE None

\* city_endpoint from "nothing found" on: the JSON body returned
CityResponse(cty, v25, v10, upd) ==
    IF v25 = None /\ v10 = None
    THEN [city |-> cty, message |-> "No measurements found for PM2.5 or PM10"]
    ELSE CityBody(cty, v25, v10, upd,
                  SubindexIfPresent(v25, PM25_BREAKPOINTS), SubindexIfPresent(v10, PM10_BREAKPOINTS))

(***************************************************************************)
(* The ingestion job and the store.  A row of the measurements table is    *)
(* (city, timestamp, aqi, pm25, pm10); aqi, pm25 and pm10 are None (NULL)  *)
(* or <<value>>, pm25 and pm10 holding the provider's value as it came.    *)
(***************************************************************************)
\* save_measurement: INSERT INTO measurements
save_measurement(rows, cty, ts_iso, aqi, v25, v10) ==
    Append(rows, [city |-> cty, timestamp |-> ts_iso, aqi |-> aqi, pm25 |-> v25, pm10 |-> v10])

RECURSIVE LastValue(_, _, _, _)
\* The loop of parse_and_save for one parameter name from measurement i on:
\* m.get("value") of the last measurement whose parameter is exactly name
LastValue(measurements, name, i, cur) ==
    IF i > Len(measurements) THEN cur
    ELSE LET m == measurements[i]
         IN  LastValue(measurements, name, i + 1,
                       IF m.parameter = name
                       THEN (IF m.value = JNull THEN None ELSE Some(m.value))
                       ELSE cur)

\* parse_and_save(city, data) at time now: the table afterwards.  data is
\* None or <<results>>, each result being its list of measurements
parse_and_save(rows, cty, data, now) ==
    IF data = None THEN rows
    ELSE IF data[1] = <<>> THEN rows
    ELSE LET measurements == data[1][1]
             v25 == LastValue(measurements, "pm25", 1, None)
             v10 == LastValue(measurements, "pm10", 1, None)
             aqi == None
         IN  save_measurement(rows, cty, now, aqi, v25, v10)

\* COALESCE(aqi, 0)
Coalesce0(aqi) == IF aqi = None THEN 0 ELSE aqi[1]

\* The groups of SELECT city, MAX(COALESCE(aqi,0)) ... GROUP BY city
CityGroups(rows) ==
    { [city |-> c,
       aqi  |-> CHOOSE a \in {Coalesce0(rows[i].aqi) : i \in {j \in 1..Len(rows) : rows[j].city = c}} :
                    \A i \in {j \in 1..Len(rows) : rows[j].city = c} : Coalesce0(rows[i].aqi) <= a]
      : c \in {rows[i].city : i \in 1..Len(rows)} }

\* get_top_cities(limit): the lists the query can return, the groups ordered
\* by aqi descending and cut at limit; the order of equal aqi is the engine's
get_top_cities(rows, limit) ==
    LET groups == CityGroups(rows)
        n      == Min2(limit, Cardinality(groups))
    IN  { s \in [1..n -> groups] :
            /\ \A i, j \in 1..n : i < j => s[i] # s[j] /\ s[i].aqi >= s[j].aqi
            /\ \A g \in groups : (\A i \in 1..n : s[i] # g) => \A i \in 1..n : s[i].aqi >= g.aqi }

\* limit=10, the default of get_top_cities
DefaultLimit == 10

(***************************************************************************)
(* What the provider can answer.                                           *)
(***************************************************************************)
\* The measurements a response is made of: both spellings of PM2.5, PM10 and
\* a pollutant the service does not read; numbers in and below the tables'
\* range, a string that is no number and null; timestamps ending in Z, with
\* an offset, in words, and missing
Samples ==
    {Measurement("pm25",  JNum(45),    Some(StampZ)),
     Measurement("pm25",  JNum(80),    Some(StampOffset)),
     Measurement("pm25",  JStr("abc"), Some(StampZ)),
     Measurement("pm25",  JNum(-5),    None),
     Measurement("pm25",  JNull,       Some(StampWords)),
     Measurement("PM2.5", JNum(45),    None),
     Measurement("pm10",  JNum(45),    Some(StampWords)),
     Measurement("pm10",  JNum(150),   None),
     Measurement("pm10",  JStr("abc"), None),
     Measurement("pm10",  JNum(-5),    Some(StampZ)),
     Measurement("pm10",  JNull,       Some(StampZ)),
     Measurement("o3",    JNum(45),    Some(StampZ))}

\* The longest list of measurements in one response
MaxMeas == 2
\* The most locations the locations endpoint names
MaxLocs == 2

MeasLists(n) == UNION {[1..k -> Samples] : k \in 0..n}

\* Responses of the latest endpoint: None for a failed fetch, else <<results>>
LatestPayloads ==
    {None} \cup {Some(<<>>)}
           \cup {Some(<<ms>>) : ms \in MeasLists(MaxMeas)}
           \cup {Some(<<a, b>>) : a \in MeasLists(1), b \in MeasLists(MaxMeas - 1)}

\* Responses of the measurements endpoint: None for a failed fetch, else
\* <<measurements>>
MeasurementPayloads == {None} \cup {Some(ms) : ms \in MeasLists(MaxMeas)}

\* Responses of the locations endpoint: None for a failed fetch, else
\* <<number of locations>>
LocationPayloads == {None} \cup {Some(n) : n \in 0..MaxLocs}

\* The cities asked for
RequestCities == {"Delhi", "Pune"}

\* CITIES, the cities of the ingestion job
IngestCities == <<"Delhi", "Mumbai">>

\* What the latest endpoint answers to the ingestion job: a failed fetch, no
\* result, one result of up to two of these measurements, or two results of one
IngestSamples ==
    {Measurement("pm25",  JNum(45),    Some(StampZ)),
     Measurement("pm25",  JStr("abc"), Some(StampZ)),
     Measurement("PM2.5", JNum(45),    None),
     Measurement("pm10",  JNum(150),   None),
     Measurement("pm10",  JNull,       Some(StampZ)),
     Measurement("o3",    JNum(45),    Some(StampZ))}

IngestLists == UNION {[1..k -> IngestSamples] : k \in 0..2}

IngestPayloads ==
    {None} \cup {Some(<<>>)}
           \cup {Some(<<ms>>) : ms \in IngestLists}
           \cup {Some(<<<<m1>>, <<m2>>>>) : m1, m2 \in IngestSamples}

\* The limits get_top_cities is called with
Limits == {1, DefaultLimit}

\* The most turns of the loop of ingest_job, each reading the clock once
MaxClock == 4

VARIABLES
    pc,             \* where the run stands
    \* the calculator
    inp,            \* the input drawn: None or <<numerator>>
    concentration,  \* the concentration passed to the calculator: None or <<float>>
    pollutant,      \* the pollutant whose table is used
    band,           \* the index of the breakpoint passed to linear_interpolate (0: none)
    interp,         \* the result of linear_interpolate: None or <<float>>
    subindex,       \* the result of get_subindex: None or <<integer>>
    \* city_endpoint
    city,           \* the city asked for
    payload,        \* the provider's response being read: None or <<content>>
    pm25,           \* None or <<float>>
    pm10,           \* None or <<float>>
    updated,        \* None or <<timestamp>>
    locations,      \* the locations of find_locations_and_try not yet tried
    response,       \* the JSON body returned: None or <<body>>
    \* the ingestion job and the store
    db,             \* the measurements table, in insertion order
    job,            \* the position of ingest_job in its cities (0: not running)
    clock,          \* datetime.utcnow()
    top             \* the last result of get_top_cities: None or <<list>>

calcVars   == <<inp, concentration, pollutant, band, interp, subindex>>
cityVars   == <<city, payload, pm25, pm10, updated, locations, response>>
ingestVars == <<db, job, clock, top>>
vars == <<pc, calcVars, cityVars, ingestVars>>

CalcIdle ==
    /\ inp = None /\ concentration = None /\ pollutant = "pm25"
    /\ band = 0 /\ interp = None /\ subindex = None

CityIdle ==
    /\ city = "" /\ payload = None /\ pm25 = None /\ pm10 = None
    /\ updated = None /\ locations = 0 /\ response = None

IngestIdle == db = <<>> /\ job = 0 /\ clock = 0 /\ top = None

(***************************************************************************)
(* The calculator applied to one concentration.                            *)
(***************************************************************************)
InitCalc ==
    /\ pc = "input"
    /\ inp \in Inputs
    /\ concentration = ToConc(inp)
    /\ pollutant \in Pollutants
    /\ band = 0
    /\ interp = None
    /\ subindex = None
    /\ CityIdle
    /\ IngestIdle

\* linear_interpolate(concentration, table[i])
Interpolate(i) ==
    /\ pc = "input"
    /\ pc' = "interpolated"
    /\ band' = i
    /\ interp' = linear_interpolate(concentration, Table(pollutant)[i])
    /\ UNCHANGED <<inp, concentration, pollutant, subindex, cityVars, ingestVars>>

\* get_subindex(concentration, table)
Subindex ==
    /\ pc = "input"
    /\ pc' = "subindexed"
    /\ subindex' = get_subindex(concentration, Table(pollutant))
    /\ UNCHANGED <<inp, concentration, pollutant, band, interp, cityVars, ingestVars>>

NextCalc ==
    \/ \E i \in 1..Len(Table(pollutant)) : Interpolate(i)
    \/ Subindex

SpecCalc == InitCalc /\ [][NextCalc]_vars

(***************************************************************************)
(* One request GET /city/{city}, a step at each await of city_endpoint.    *)
(***************************************************************************)
Init ==
    /\ pc = "start"
    /\ city \in RequestCities
    /\ payload = None /\ pm25 = None /\ pm10 = None
    /\ updated = None /\ locations = 0 /\ response = None
    /\ CalcIdle
    /\ IngestIdle

\* Where city_endpoint goes once a lookup has returned
After(acc, next) == IF acc.pm25 = None /\ acc.pm10 = None THEN next ELSE "respond"

\* payload = await fetch_openaq(client, "latest", ...)
FetchLatest(p) ==
    /\ pc = "start"
    /\ pc' = "latest"
    /\ payload' = p
    /\ UNCHANGED <<city, pm25, pm10, updated, locations, response, calcVars, ingestVars>>

\* pm25, pm10, updated = extract_from_latest(payload)
ExtractLatest ==
    /\ pc = "latest"
    /\ LET acc == extract_from_latest(payload)
       IN  /\ pm25' = acc.pm25
           /\ pm10' = acc.pm10
           /\ updated' = acc.updated
           /\ pc' = After(acc, "measurements")
    /\ payload' = None
    /\ UNCHANGED <<city, locations, response, calcVars, ingestVars>>

\* try_measurements_for_city up to its await
FetchMeasurements(p) ==
    /\ pc = "measurements"
    /\ pc' = "measured"
    /\ payload' = p
    /\ UNCHANGED <<city, pm25, pm10, updated, locations, response, calcVars, ingestVars>>

\* try_measurements_for_city from its await on
TryMeasurements ==
    /\ pc = "measured"
    /\ LET acc == try_measurements_for_city(payload)
       IN  /\ pm25' = acc.pm25
           /\ pm10' = acc.pm10
           /\ updated' = acc.updated
           /\ pc' = After(acc, "locations")
    /\ payload' = None
    /\ UNCHANGED <<city, locations, response, calcVars, ingestVars>>

\* find_locations_and_try up to the loop over the locations
FetchLocations(p) ==
    /\ pc = "locations"
    /\ locations' = IF p = None THEN 0 ELSE p[1]
    /\ pc' = IF locations' = 0 THEN "respond" ELSE "location"
    /\ UNCHANGED <<city, payload, pm25, pm10, updated, response, calcVars, ingestVars>>

\* data = await fetch_openaq(client, "measurements", params2)
FetchLocationData(p) ==
    /\ pc = "location"
    /\ pc' = "located"
    /\ payload' = p
    /\ UNCHANGED <<city, pm25, pm10, updated, locations, response, calcVars, ingestVars>>

\* The rest of one turn of the loop of find_locations_and_try
TryLocation ==
    /\ pc = "located"
    /\ LET acc == TryLocationData(payload)
       IN  /\ pm25' = acc.pm25
           /\ pm10' = acc.pm10
           /\ updated' = acc.updated
           /\ locations' = IF BothFound(acc) THEN 0 ELSE locations - 1
           /\ pc' = IF locations' = 0 THEN "respond" ELSE "location"
    /\ payload' = None
    /\ UNCHANGED <<city, response, calcVars, ingestVars>>

\* city_endpoint from "nothing found" to its return
Respond ==
    /\ pc = "respond"
    /\ pc' = "done"
    /\ response' = Some(CityResponse(city, pm25, pm10, updated))
    /\ UNCHANGED <<city, payload, pm25, pm10, updated, locations, calcVars, ingestVars>>

Next ==
    \/ \E p \in LatestPayloads : FetchLatest(p)
    \/ ExtractLatest
    \/ \E p \in MeasurementPayloads : FetchMeasurements(p)
    \/ TryMeasurements
    \/ \E p \in LocationPayloads : FetchLocations(p)
    \/ \E p \in MeasurementPayloads : FetchLocationData(p)
    \/ TryLocation
    \/ Respond

Spec == Init /\ [][Next]_vars

(***************************************************************************)
(* The ingestion job, a step for each city, and get_top_cities.            *)
(***************************************************************************)
InitIngest ==
    /\ pc = "ingest"
    /\ db = <<>> /\ job = 0 /\ clock = 0 /\ top = None
    /\ CalcIdle
    /\ CityIdle

\* The scheduler starts ingest_job
StartJob ==
    /\ job = 0
    /\ clock + Len(IngestCities) <= MaxClock
    /\ job' = 1
    /\ UNCHANGED <<pc, db, clock, top, calcVars, cityVars>>

\* One turn of the loop of ingest_job: parse_and_save(city, data)
IngestCity(data) ==
    /\ job > 0
    /\ db' = parse_and_save(db, IngestCities[job], data, clock)
    /\ clock' = clock + 1
    /\ job' = IF job = Len(IngestCities) THEN 0 ELSE job + 1
    /\ UNCHANGED <<pc, top, calcVars, cityVars>>

\* get_top_cities(limit)
GetTopCities(limit) ==
    /\ \E s \in get_top_cities(db, limit) : top' = Some(s)
    /\ UNCHANGED <<pc, db, job, clock, calcVars, cityVars>>

NextIngest ==
    \/ StartJob
    \/ \E data \in IngestPayloads : IngestCity(data)
    \/ \E limit \in Limits : GetTopCities(limit)

SpecIngest == InitIngest /\ [][NextIngest]_vars

(***************************************************************************)
(* What the calculator returns on every concentration of the grid, by      *)
(* numerator: the claims about pairs of concentrations compare the         *)
(* current result with these.                                              *)
(***************************************************************************)
InterpSeq(t) ==
    [i \in 1..Len(t) |->
        [j \in 1..Len(ConcSeq) |-> linear_interpolate(Some(ConcSeq[j]), t[i])] \o <<>>] \o <<>>

InterpAll == [pm25 |-> InterpSeq(PM25_BREAKPOINTS), pm10 |-> InterpSeq(PM10_BREAKPOINTS)]

\* linear_interpolate of the concentration of numerator k on band i of p's table
InterpOf(p, i, k) == InterpAll[p][i][k - MinNum + 1]

SubIndexSeq(t) == [j \in 1..Len(ConcSeq) |-> get_subindex(Some(ConcSeq[j]), t)] \o <<>>

SubIndexAll == [pm25 |-> SubIndexSeq(PM25_BREAKPOINTS), pm10 |-> SubIndexSeq(PM10_BREAKPOINTS)]

\* get_subindex of the concentration of numerator k on p's table
SubIndexOf(p, k) == SubIndexAll[p][k - MinNum + 1]

\* The numerator of an integer-valued float on the grid
NumOf(x) == PyRound(x) * Den

LastBand(p) == Table(p)[Len(Table(p))]

\* Band i of table t contains c, bounds included
InBand(c, t, i) == FLe(t[i][1], c) /\ FLe(c, t[i][2])

\* The first band of t, in table order, that contains c
FirstIdx(c, t) ==
    CHOOSE i \in 1..Len(t) : InBand(c, t, i) /\ \A j \in 1..(i - 1) : ~InBand(c, t, j)

\* index_low + (index_high - index_low) / (C_high - C_low) * (c - C_low) on
\* breakpoint bp, each operation in double precision
LineAt(c, bp) ==
    FAdd(FromInt(bp[3]),
         FMul(FDiv(FromInt(bp[4] - bp[3]), FSub(bp[2], bp[1])), FSub(c, bp[1])))

FAbs(x) == [x EXCEPT !.neg = FALSE]

Half == FDiv(FromInt(1), FromInt(2))

\* r is the integer nearest to x, a tie going to the even integer
NearestTiesEven(x, r) ==
    LET a == FAbs(FSub(x, FromInt(r)))
    IN  FLt(a, Half) \/ (a = Half /\ r % 2 = 0)

\* r is the integer nearest to x, a tie going up: r - 1/2 <= x < r + 1/2
NearestTiesUp(x, r) ==
    LET d == FSub(x, FromInt(r))
    IN  FLe(FNeg(Half), d) /\ FLt(d, Half)

InRange(p) == inp # None /\ 0 <= inp[1] /\ inp[1] <= NumOf(LastBand(p)[2])
AboveRange(p) == inp # None /\ inp[1] > NumOf(LastBand(p)[2])

(***************************************************************************)
(* C1: for every breakpoint of either table, linear_interpolate at the     *)
(* band's lower bound is exactly index_low and at its upper bound exactly  *)
(* index_high.                                                             *)
(***************************************************************************)
C1_EndpointsExact ==
    pc = "interpolated" =>
        LET bp == Table(pollutant)[band]
        IN  /\ concentration = Some(bp[1]) => interp = Some(FromInt(bp[3]))
            /\ concentration = Some(bp[2]) => interp = Some(FromInt(bp[4]))

\* PM2.5 band (30, 60, 51, 100), whose slope 49/30 is no float, at its upper bound
C1_Witness ==
    /\ pc = "interpolated" /\ pollutant = "pm25" /\ band = 2
    /\ concentration = Some(FromInt(60)) /\ interp = Some(FromInt(100))

(***************************************************************************)
(* C2, as amended: for a present concentration c in [0, last C_high],      *)
(* get_subindex is the line of the first band containing c, evaluated in   *)
(* double precision and rounded to the nearest integer, ties to even;      *)
(* PM2.5 = 45 gives 76 and PM10 = 600 gives 601.                           *)
(***************************************************************************)
C2_FirstBandTiesEven ==
    pc = "subindexed" /\ InRange(pollutant) =>
        LET t == Table(pollutant)
            x == LineAt(concentration[1], t[FirstIdx(concentration[1], t)])
        IN  /\ subindex # None
            /\ NearestTiesEven(x, subindex[1])
            /\ pollutant = "pm25" /\ inp = Some(45 * Den) => subindex = Some(76)
            /\ pollutant = "pm10" /\ inp = Some(600 * Den) => subindex = Some(601)

\* PM2.5 = 75 lies on the line at 150.5 and gets 150
C2_Witness ==
    /\ pc = "subindexed" /\ pollutant = "pm25"
    /\ inp = Some(75 * Den) /\ subindex = Some(150)

\* C2 as claimed: the same, with ties rounded half-up
C2_Original ==
    pc = "subindexed" /\ InRange(pollutant) =>
        LET t == Table(pollutant)
            x == LineAt(concentration[1], t[FirstIdx(concentration[1], t)])
        IN  /\ subindex # None
            /\ NearestTiesUp(x, subindex[1])
            /\ pollutant = "pm25" /\ inp = Some(45 * Den) => subindex = Some(76)
            /\ pollutant = "pm10" /\ inp = Some(600 * Den) => subindex = Some(601)

(***************************************************************************)
(* C3, as amended: for a concentration above the last band, get_subindex   *)
(* is present, is the last band's line extended beyond the band (double    *)
(* precision, rounded to nearest, ties to even), is not clamped, and is at *)
(* least the table's nominal maximum index; PM2.5 = 600 gives 1331 and     *)
(* PM10 = 1000 + 1/3 gives 999.                                            *)
(***************************************************************************)
C3_ExtrapolatedAtLeastMax ==
    pc = "subindexed" /\ AboveRange(pollutant) =>
        LET last == LastBand(pollutant)
        IN  /\ subindex # None
            /\ NearestTiesEven(LineAt(concentration[1], last), subindex[1])
            /\ subindex[1] >= last[4]
            /\ pollutant = "pm25" /\ inp = Some(600 * Den) => subindex = Some(1331)
            /\ pollutant = "pm10" /\ inp = Some(1000 * Den + 1) => subindex = Some(999)

C3_Witness ==
    /\ pc = "subindexed" /\ pollutant = "pm25"
    /\ inp = Some(600 * Den) /\ subindex = Some(1331)

\* C3 as claimed: the result is strictly greater than the nominal maximum
C3_Original ==
    pc = "subindexed" /\ AboveRange(pollutant) =>
        LET last == LastBand(pollutant)
        IN  /\ subindex # None
            /\ NearestTiesEven(LineAt(concentration[1], last), subindex[1])
            /\ subindex[1] > last[4]
            /\ pollutant = "pm25" /\ inp = Some(600 * Den) => subindex = Some(1331)

(***************************************************************************)
(* C5: get_subindex returns None for an absent concentration, and for a    *)
(* present concentration below the lowest band's lower bound, in both      *)
(* tables.                                                                 *)
(***************************************************************************)
C5_AbsentStaysAbsent ==
    pc = "subindexed" =>
        /\ concentration = None => subindex = None
        /\ concentration # None /\ FLt(concentration[1], Table(pollutant)[1][1]) => subindex = None

C5_Witness == pc = "subindexed" /\ pollutant = "pm10" /\ concentration = None /\ subindex = None

(***************************************************************************)
(* C9: within one band, linear_interpolate is monotonic non-decreasing:    *)
(* every smaller concentration of the band interpolates to at most the     *)
(* current result.                                                         *)
(***************************************************************************)
C9_MonotoneInBand ==
    pc = "interpolated" /\ interp # None =>
        \A k1 \in NumOf(Table(pollutant)[band][1])..(inp[1] - 1) :
            LET r1 == InterpOf(pollutant, band, k1)
            IN  r1 # None /\ FLe(r1[1], interp[1])

\* PM10 = 999 in the last band, above every concentration from 500 on
C9_Witness ==
    /\ pc = "interpolated" /\ pollutant = "pm10" /\ band = 7
    /\ inp = Some(999 * Den) /\ interp # None
    /\ InterpOf("pm10", 7, 500 * Den) = Some(FromInt(501))

(***************************************************************************)
(* C10: get_subindex is monotonic non-decreasing over the whole axis       *)
(* (across bands, on shared boundaries, into the extrapolated region), and *)
(* within the table's range its result lies in [0, nominal maximum].       *)
(***************************************************************************)
C10_MonotoneOverall ==
    pc = "subindexed" /\ inp # None /\ inp[1] >= 0 =>
        /\ subindex # None
        /\ \A k1 \in 0..inp[1] :
                LET s1 == SubIndexOf(pollutant, k1)
                IN  s1 # None /\ s1[1] <= subindex[1]
        /\ InRange(pollutant) => 0 <= subindex[1] /\ subindex[1] <= LastBand(pollutant)[4]

\* PM2.5 = 600, extrapolated, against the shared boundary 30
C10_Witness ==
    /\ pc = "subindexed" /\ pollutant = "pm25"
    /\ inp = Some(600 * Den) /\ subindex = Some(1331)
    /\ SubIndexOf("pm25", 30 * Den) = Some(50)

(***************************************************************************)
(* C4: the overall AQI city_endpoint returns is aggregated from the two    *)
(* sub-indices it returns: the absent ones are left out and never counted  *)
(* as 0; with none left the AQI is absent; otherwise it is the maximum of  *)
(* the present ones ({167, absent} gives 167, {76, 134} gives 134).        *)
(***************************************************************************)
C4_MaxOfPresent ==
    pc = "done" /\ "aqi" \in DOMAIN response[1] =>
        LET body    == response[1]
            s25     == body.subindex.pm25
            s10     == body.subindex.pm10
            present == {s[1] : s \in {s25, s10} \ {None}}
        IN  /\ present = {} => body.aqi = None
            /\ present # {} =>
                  /\ body.aqi # None
                  /\ body.aqi[1] \in present
                  /\ \A x \in present : x <= body.aqi[1]
            /\ s25 = Some(167) /\ s10 = None => body.aqi = Some(167)
            /\ s25 = Some(76) /\ s10 = Some(134) => body.aqi = Some(134)

\* PM2.5 = 80 found and PM10 not: sub-indices {167, absent}, AQI 167
C4_Witness ==
    /\ pc = "done" /\ pm25 = Some(FromInt(80)) /\ pm10 = None
    /\ response[1].subindex = [pm25 |-> Some(167), pm10 |-> None]
    /\ response[1].aqi = Some(167)

(***************************************************************************)
(* C6, as claimed: a malformed concentration gives an InvalidInput error   *)
(* outcome and is never silently turned into the absent outcome; here, for *)
(* a negative value reaching get_subindex: when city_endpoint has found a  *)
(* negative PM2.5 or PM10, what it returns is an error, not a body whose   *)
(* sub-index for that pollutant is absent.                                 *)
(***************************************************************************)
C6_Original ==
    pc = "done" =>
        /\ pm25 # None /\ pm25[1].neg => "error" \in DOMAIN response[1]
        /\ pm10 # None /\ pm10[1].neg => "error" \in DOMAIN response[1]

(***************************************************************************)
(* C7, as claimed: every row the ingestion job saves in which pm25 or pm10 *)
(* is a number within its table's range carries as aqi the maximum of the  *)
(* sub-indices of the numbers saved.                                       *)
(***************************************************************************)
\* The sub-index of a saved value on table t, None if it is no number
SavedSubindex(saved, t) ==
    IF saved = None THEN None
    ELSE IF PyFloat(saved[1]) = None THEN None
    ELSE get_subindex(PyFloat(saved[1]), t)

\* A saved value is a number within the range of table t
SavedInRange(saved, t) ==
    /\ saved # None
    /\ PyFloat(saved[1]) # None
    /\ FLe(t[1][1], PyFloat(saved[1])[1])
    /\ FLe(PyFloat(saved[1])[1], t[Len(t)][2])

C7_Original ==
    \A i \in 1..Len(db) :
        SavedInRange(db[i].pm25, PM25_BREAKPOINTS) \/ SavedInRange(db[i].pm10, PM10_BREAKPOINTS) =>
            db[i].aqi = overall_aqi(SavedSubindex(db[i].pm25, PM25_BREAKPOINTS),
                                    SavedSubindex(db[i].pm10, PM10_BREAKPOINTS))

(***************************************************************************)
(* C8, as claimed: an absent AQI stays distinguishable from an AQI of 0 in *)
(* every result shown to callers; here, for get_top_cities: a city is      *)
(* listed with aqi 0 only if one of its rows has the aqi 0.                *)
(***************************************************************************)
C8_Original ==
    top # None =>
        \A i \in 1..Len(top[1]) :
            top[1][i].aqi = 0 =>
                \E j \in 1..Len(db) : db[j].city = top[1][i].city /\ db[j].aqi = Some(0)
=============================================================================
